---- MODULE Spec2Model ----
(***************************************************************************)
(* Model of the NMEA simulator binary (src/rs/src/main.rs) with its        *)
(* linked-pty transport (src/rs/src/pty_handler.rs) and the part of the    *)
(* sentence generator that decides whether a batch is produced             *)
(* (src/rs/src/nmea_generator.rs).                                         *)
(*                                                                         *)
(* Processes: the signal-handling thread, the main thread (argument check, *)
(* setup_linked_ptys, start_forwarding, write_nmea_messages, cleanup), the *)
(* two forwarding threads, and the environment: the OS delivering SIGINT,  *)
(* an external consumer process that opens the two published paths, and an *)
(* external process that removes a published path.                         *)
(*                                                                         *)
(* A pseudo-terminal is modelled as a pair of byte queues (replica ->      *)
(* master and master -> replica).  Bytes are position tags 1, 2, 3, ...:   *)
(* loss, duplication and reordering of any payload show up on the tags.    *)
(***************************************************************************)
EXTENDS Integers, Sequences, FiniteSets, TLC

\* ---------------------------------------------------------------- bounds
\* SIGINTs the OS delivers in one run.
MaxSignals == 2
\* Bytes the consumer writes to the replica published at gps_input_path.
MaxPayload == 3
\* Bytes the consumer writes to the replica published at gps_output_path.
MaxBack == 1
\* Capacity of one direction of a pty (bytes queued in the kernel).
QueueCap == 2
\* Size of a forwarding thread's buffer; stands for the 1024 of `buf`.
BufSize == 2
\* Descriptor numbers of the process's descriptor table.
MaxFd == 3
\* Invocations of PtyHandler::cleanup on one handler.
MaxCleanups == 2

\* Bytes of a sentence body handed to complete_sentence.
MaxBody == 3

\* Satellites in the lists handed to generate_gsa that are enumerated in full
\* (the longest list the generator can sample is taken besides).
MaxGsaList == 4

\* ----------------------------------------------------- program constants
\* generate_satellites: random_int(4, 12), upper end excluded.
MinSats == 4
MaxSatsExcl == 12
\* generate_gsv: random_int(len, 16), upper end excluded; 4 satellites a message.
MaxMsgsExcl == 16
GsvChunk == 4
\* Constellation::len(): QZSS as usize + 1.
ConstellationLen == 5
\* Satellite::new_random: random_int(1, 32), (65, 96), (1, 36), (101, 136), upper
\* ends excluded.
GpsIdMin == 1
GpsIdMaxExcl == 32
GlonassIdMin == 65
GalileoIdMin == 1
BeidouIdMaxExcl == 136
\* generate_gsa: for _ in constellations.len()..12; random_uniform(0.5, 10.0)
\* printed with {:.1}, in tenths; fix_type.
GsaSlots == 12
DopMinTenths == 5
DopMaxTenths == 100
FixType == 3
\* Process exit codes: exit(1) and an Err returned from main; a panic.
ExitFailure == 1
ExitPanic == 101
\* u8; {:02X}.
ByteBits == 8
ChecksumWidth == 2
\* generate_location: (x - deg) * 60.0; {:02}, {:03}, {:07.4}; the ranges sampled.
MinPerDeg == 60
LatDegWidth == 2
LonDegWidth == 3
MinWidth == 7
MinDecimals == 4
MaxLatDeg == 90
MaxLonDeg == 180

Tasks == {1, 2}
Paths == {1, 2}
Ptys == {1, 2}
Fds == 1..MaxFd

VARIABLES
    shutdown,       \* shutdown_event: the AtomicBool
    sigPending,     \* SIGINTs delivered and not yet iterated by signals.forever()
    sigHandled,     \* stores the signal thread has made
    mainPc,         \* position of the main thread
    exitCode,       \* -1 while the process runs, then its exit status
    fs,             \* what is at gps_input_path (1) and gps_output_path (2)
    created,        \* paths at which setup created a link
    fdt,            \* the process's descriptor table: number -> open file
    masterFd,       \* master_fd1 / master_fd2 as numbers (0: not yet created)
    slaveFd,        \* PtyHandler.slave_fd1 / slave_fd2 (0: None)
    writerFd,       \* descriptor of write_nmea_messages' BufWriter (0: none)
    handle,         \* PtyHandler.forward_thread1 / 2 is Some
    devNodes,       \* replica paths of destroyed ptys: "unknown" | "removed" | "kept"
    toMaster,       \* bytes written at the replica, readable at the master
    toSlave,        \* bytes written at the master, readable at the replica
    fwdPc,          \* position of each forwarding thread
    buf,            \* the bytes a forwarding thread has read and not yet written
    readsAfterFlag, \* reads a running thread completed while the flag was already true
    hOpen,          \* the consumer process holds the replica at path p open
    sent,           \* bytes written so far to the replica at gps_input_path
    back,           \* bytes the consumer wrote to the replica at gps_output_path
    rcv,            \* bytes the consumer has read at gps_output_path
    bodiesAfterFlag,\* loop iterations run while the flag was already true
    loopEnd,        \* how write_nmea_messages returned: "no" | "flag" | "error"
    lossy,          \* bytes were dropped: a forwarding write handed over fewer than it was
                    \* given, or a pty was destroyed with bytes queued
    rmFailed,       \* a remove_file of cleanup failed
    cleanupCalls,   \* invocations of cleanup so far
    cleanupResult,  \* "none" | "ok" | "err": what the last cleanup returned
    genCall,        \* a call of a generator function with its sampled inputs
    genRet          \* what that call returned

sigVars == <<shutdown, sigPending, sigHandled>>
mainVars == <<mainPc, exitCode, cleanupCalls, cleanupResult, rmFailed, bodiesAfterFlag, loopEnd>>
fsVars == <<fs, created>>
fdVars == <<fdt, masterFd, slaveFd, writerFd, handle>>
ptyVars == <<devNodes, toMaster, toSlave>>
fwdVars == <<fwdPc, buf, readsAfterFlag, lossy>>
harnessVars == <<hOpen, sent, back, rcv>>
genVars == <<genCall, genRet>>
vars == <<sigVars, mainVars, fsVars, fdVars, ptyVars, fwdVars, harnessVars, genVars>>

\* ------------------------------------------------------------- helpers
Min(a, b) == IF a <= b THEN a ELSE b

\* The process runs until main returns, exits or panics; then every thread is gone.
Alive == mainPc # "exited"

\* Prior states of a path before setup publishes to it.
PriorStates == {"absent", "file", "live", "dangling"}

\* The name of the link setup publishes at path p: the replica of pty p.
PtsOf(p) == IF p = 1 THEN "pts1" ELSE "pts2"
PtyOfEntry(e) == IF e = "pts1" THEN 1 ELSE IF e = "pts2" THEN 2 ELSE 0

\* Path::exists: follows symbolic links, false for a broken link.
PathExists(e, nd) ==
    CASE e = "absent" -> FALSE
      [] e = "file" -> TRUE
      [] e = "live" -> TRUE
      [] e = "dangling" -> FALSE
      [] e = "pts1" -> nd[1]
      [] e = "pts2" -> nd[2]

\* An entry is at the path (lstat): what symlink(2) and unlink(2) look at.
EntryPresent(e) == e # "absent"

\* Descriptor allocation: open and openpty return the lowest free number.
HasFree(t) == \E n \in Fds : t[n] = "free"
LowestFree(t) == CHOOSE n \in Fds : t[n] = "free" /\ \A m \in Fds : m < n => t[m] # "free"

\* Open replica files of pty k: the process's own plus the consumer's.
SlaveName(k) == IF k = 1 THEN "s1" ELSE "s2"
MasterName(k) == IF k = 1 THEN "m1" ELSE "m2"
\* The master end of pty k is open: the process holds a descriptor of it.
MasterOpen(k, t) == \E n \in Fds : t[n] = MasterName(k)
SlaveOpens(k, t, h) ==
    Cardinality({n \in Fds : t[n] = SlaveName(k)}) + (IF h[k] THEN 1 ELSE 0)

\* The replica device path of pty k exists: the pty lives, or it was destroyed
\* on a platform whose device nodes stay.
Node(mfd, t, dn) ==
    [k \in Ptys |-> mfd[k] # 0 /\ (MasterOpen(k, t) \/ dn = "kept")]


\* No generator call is under way / nothing returned yet.
NoCall == [fn |-> "none"]
NoRet == [kind |-> "none"]

\* The process as main finds it: the flag false (main.rs:21), nothing set up.
ProcessInit ==
    /\ shutdown = FALSE
    /\ sigPending = 0
    /\ sigHandled = 0
    /\ mainPc = "args"
    /\ exitCode = -1
    /\ fs \in [Paths -> PriorStates]
    /\ created = {}
    /\ fdt = [n \in Fds |-> "free"]
    /\ masterFd = [k \in Ptys |-> 0]
    /\ slaveFd = [k \in Ptys |-> 0]
    /\ writerFd = 0
    /\ handle = [t \in Tasks |-> FALSE]
    /\ devNodes = "unknown"
    /\ toMaster = [k \in Ptys |-> <<>>]
    /\ toSlave = [k \in Ptys |-> <<>>]
    /\ fwdPc = [t \in Tasks |-> "idle"]
    /\ buf = [t \in Tasks |-> <<>>]
    /\ readsAfterFlag = [t \in Tasks |-> 0]
    /\ hOpen = [p \in Paths |-> FALSE]
    /\ sent = 0
    /\ back = 0
    /\ rcv = <<>>
    /\ bodiesAfterFlag = 0
    /\ loopEnd = "no"
    /\ lossy = FALSE
    /\ rmFailed = FALSE
    /\ cleanupCalls = 0
    /\ cleanupResult = "none"

Init ==
    /\ ProcessInit
    /\ genCall = NoCall
    /\ genRet = NoRet

\* ------------------------------------------------- shutdown coordinator
\* The OS delivers SIGINT; signal_hook queues it for the iterator.
Interrupt ==
    /\ Alive
    /\ sigPending + sigHandled < MaxSignals
    /\ sigPending' = sigPending + 1
    /\ UNCHANGED <<shutdown, sigHandled, mainVars, fsVars, fdVars, ptyVars, fwdVars, harnessVars>>
    /\ UNCHANGED genVars

\* Mutation of SignalStore: the handler flips the flag instead of setting it.
SignalStoreToggle(flag) == ~flag

\* shutdown_event_clone.store(true, SeqCst): the value stored, given the old one.
SignalStore(flag) == TRUE

\* One iteration of `for _ in signals.forever()`.
SignalThread ==
    /\ Alive
    /\ sigPending > 0
    /\ sigPending' = sigPending - 1
    /\ sigHandled' = sigHandled + 1
    /\ shutdown' = SignalStore(shutdown)
    /\ UNCHANGED <<mainVars, fsVars, fdVars, ptyVars, fwdVars, harnessVars>>
    /\ UNCHANGED genVars

\* ------------------------------------------------------------ main: exit
\* The process ends with status c: main returned, exited or panicked.
ExitWith(c) ==
    /\ mainPc' = "exited"
    /\ exitCode' = c

\* args.len() != 3: usage and exit(1).
MainArgs ==
    /\ mainPc = "args"
    /\ \E ok \in BOOLEAN :
         IF ok THEN mainPc' = "pty1" /\ exitCode' = exitCode
         ELSE ExitWith(ExitFailure)
    /\ UNCHANGED <<cleanupCalls, cleanupResult, rmFailed, bodiesAfterFlag, loopEnd>>
    /\ UNCHANGED <<sigVars, fsVars, fdVars, ptyVars, fwdVars, harnessVars>>
    /\ UNCHANGED genVars

\* create_pty: openpty gives a master and a replica descriptor, the replica one
\* is closed at once; Err when openpty fails.
MainCreatePty(k) ==
    /\ mainPc = (IF k = 1 THEN "pty1" ELSE "pty2")
    /\ \E ok \in BOOLEAN :
         IF ok /\ HasFree(fdt)
         THEN /\ mainPc' = (IF k = 1 THEN "pty2" ELSE "link1")
              /\ exitCode' = exitCode
              /\ masterFd' = [masterFd EXCEPT ![k] = LowestFree(fdt)]
              /\ fdt' = [fdt EXCEPT ![LowestFree(fdt)] = MasterName(k)]
         ELSE /\ ExitWith(ExitFailure)
              /\ UNCHANGED <<masterFd, fdt>>
    /\ UNCHANGED <<cleanupCalls, cleanupResult, rmFailed, bodiesAfterFlag, loopEnd>>
    /\ UNCHANGED <<slaveFd, writerFd, handle>>
    /\ UNCHANGED <<sigVars, fsVars, ptyVars, fwdVars, harnessVars>>
    /\ UNCHANGED genVars

\* create_symlink(target, link_path): the entry left at the path.
SymlinkEntry(e, nd, target) ==
    LET afterRemove == IF PathExists(e, nd) THEN "absent" ELSE e
    IN IF EntryPresent(afterRemove) THEN afterRemove ELSE target

\* create_symlink(target, link_path): Ok iff symlink(2) found the path free.
SymlinkOk(e, nd) ==
    LET afterRemove == IF PathExists(e, nd) THEN "absent" ELSE e
    IN ~EntryPresent(afterRemove)

\* Mutation of MainSymlink: a failed create_symlink sets the shutdown flag.
MainSymlinkSetsFlag(p) ==
    /\ mainPc = (IF p = 1 THEN "link1" ELSE "link2")
    /\ fs' = [fs EXCEPT ![p] = SymlinkEntry(fs[p], Node(masterFd, fdt, devNodes), PtsOf(p))]
    /\ IF SymlinkOk(fs[p], Node(masterFd, fdt, devNodes))
       THEN /\ mainPc' = (IF p = 1 THEN "link2" ELSE "open1")
            /\ exitCode' = exitCode
            /\ created' = created \cup {p}
            /\ shutdown' = shutdown
       ELSE /\ ExitWith(ExitFailure)
            /\ created' = created
            /\ shutdown' = TRUE
    /\ UNCHANGED <<sigPending, sigHandled>>
    /\ UNCHANGED <<cleanupCalls, cleanupResult, rmFailed, bodiesAfterFlag, loopEnd>>
    /\ UNCHANGED <<fdVars, ptyVars, fwdVars, harnessVars>>
    /\ UNCHANGED genVars

\* self.create_symlink(&slave_nameN, path)? in setup_linked_ptys.
MainSymlink(p) ==
    /\ mainPc = (IF p = 1 THEN "link1" ELSE "link2")
    /\ fs' = [fs EXCEPT ![p] = SymlinkEntry(fs[p], Node(masterFd, fdt, devNodes), PtsOf(p))]
    /\ IF SymlinkOk(fs[p], Node(masterFd, fdt, devNodes))
       THEN /\ mainPc' = (IF p = 1 THEN "link2" ELSE "open1")
            /\ exitCode' = exitCode
            /\ created' = created \cup {p}
       ELSE /\ ExitWith(ExitFailure)
            /\ created' = created
    /\ UNCHANGED <<cleanupCalls, cleanupResult, rmFailed, bodiesAfterFlag, loopEnd>>
    /\ UNCHANGED <<sigVars, fdVars, ptyVars, fwdVars, harnessVars>>
    /\ UNCHANGED genVars

\* A path opens as the replica of pty k when it is the link to it and the pty lives.
OpensAs(e, t) ==
    IF PtyOfEntry(e) # 0 /\ MasterOpen(PtyOfEntry(e), t) THEN PtyOfEntry(e) ELSE 0

\* OpenOptions::open(path)?.as_raw_fd(): the File is a temporary, dropped (and
\* its descriptor closed) at the end of the statement; the number is kept.
MainOpenSlave(p) ==
    /\ mainPc = (IF p = 1 THEN "open1" ELSE "open2")
    /\ IF OpensAs(fs[p], fdt) # 0 /\ HasFree(fdt)
       THEN /\ mainPc' = (IF p = 1 THEN "open2" ELSE "spawn")
            /\ exitCode' = exitCode
            /\ slaveFd' = [slaveFd EXCEPT ![p] = LowestFree(fdt)]
       ELSE /\ ExitWith(ExitFailure)
            /\ slaveFd' = slaveFd
    /\ UNCHANGED <<cleanupCalls, cleanupResult, rmFailed, bodiesAfterFlag, loopEnd>>
    /\ UNCHANGED <<fdt, masterFd, writerFd, handle>>
    /\ UNCHANGED <<sigVars, fsVars, ptyVars, fwdVars, harnessVars>>
    /\ UNCHANGED genVars

\* start_forwarding: both threads are spawned and their handles stored.
MainStartForwarding ==
    /\ mainPc = "spawn"
    /\ mainPc' = "wopen"
    /\ fwdPc' = [t \in Tasks |-> "check"]
    /\ handle' = [t \in Tasks |-> TRUE]
    /\ UNCHANGED <<exitCode, cleanupCalls, cleanupResult, rmFailed, bodiesAfterFlag, loopEnd>>
    /\ UNCHANGED <<fdt, masterFd, slaveFd, writerFd, buf, readsAfterFlag, lossy>>
    /\ UNCHANGED <<sigVars, fsVars, ptyVars, harnessVars>>
    /\ UNCHANGED genVars

\* ------------------------------------------------- sentence generator
\* generate_gsv: message i of m covers satellites[start..end) of the n sampled.
GsvStart(i) == i * GsvChunk
GsvEnd(i, m, n) == IF i = m - 1 THEN n ELSE (i + 1) * GsvChunk

\* &satellites[start..end] panics unless start <= end <= len.
SliceOk(s, e, n) == s <= e /\ e <= n

\* generate_sentences panics for n satellites and m GSV messages.
GsvPanics(n, m) == \E i \in 0..(m - 1) : ~SliceOk(GsvStart(i), GsvEnd(i, m, n), n)

\* Satellite counts generate_satellites samples, message counts generate_gsv samples.
SatCounts == MinSats..(MaxSatsExcl - 1)
MsgCounts(n) == n..(MaxMsgsExcl - 1)

\* What one call of generate_sentences can do, over everything it can sample.
GenerateOutcomes ==
    {o \in {"panic", "batch"} :
        \E n \in SatCounts : \E m \in MsgCounts(n) : (o = "panic") = GsvPanics(n, m)}

\* ------------------------------------ sentence generator: pure functions
\* Strings are sequences of bytes (ASCII codes).
\* a ^ b on u8, bit by bit.
RECURSIVE XorBits(_, _, _)
XorBits(a, b, w) ==
    IF w = 0 THEN 0
    ELSE (((a % 2) + (b % 2)) % 2) + 2 * XorBits(a \div 2, b \div 2, w - 1)

\* let mut checksum: u8 = 0; for c in sentence.as_bytes() { checksum ^= c; }
\* The loop over s from acc is the loop over the first half of s, then the loop
\* over the rest from the value mid that the first half ended with.
RECURSIVE XorFold(_, _)
XorFold(acc, s) ==
    IF s = <<>> THEN acc
    ELSE IF Len(s) = 1 THEN XorBits(acc, s[1], ByteBits)
    ELSE LET half == Len(s) \div 2
             rest(mid) == XorFold(mid, SubSeq(s, half + 1, Len(s)))
         IN CHOOSE r \in {rest(mid) : mid \in {XorFold(acc, SubSeq(s, 1, half))}} : TRUE

\* Mutation of HexUpper: the lower-case digits of {:x}.
HexLower(d) == IF d < 10 THEN 48 + d ELSE 87 + d

\* One digit of {:X}: '0'..'9', 'A'..'F'.
HexUpper(d) == IF d < 10 THEN 48 + d ELSE 55 + d

\* The digits of v in base 16, most significant first, no padding.
RECURSIVE HexDigits(_)
HexDigits(v) ==
    IF v < 16 THEN <<HexUpper(v)>> ELSE HexDigits(v \div 16) \o <<HexUpper(v % 16)>>

\* Width w of a format spec with the 0 flag: zeros ('0' = 48) in front up to w.
RECURSIVE ZeroPad(_, _)
ZeroPad(s, w) == IF Len(s) >= w THEN s ELSE ZeroPad(<<48>> \o s, w)

\* format!("{:02X}", checksum)
calculate_checksum(sentence) == ZeroPad(HexDigits(XorFold(0, sentence)), ChecksumWidth)

\* format!("${}*{}\r\n", sentence, self.calculate_checksum(sentence))
complete_sentence(sentence) ==
    <<36>> \o sentence \o <<42>> \o calculate_checksum(sentence) \o <<13, 10>>

\* Sentence bodies handed to complete_sentence: every byte sequence of up to
\* MaxBody bytes over '$', '*', ',', 'A', 'G'.
Alphabet == {36, 42, 44, 65, 71}
Bodies == UNION {[1..n -> Alphabet] : n \in 0..MaxBody}

\* The decimal digits of n, most significant first, no padding.
RECURSIVE DecDigits(_)
DecDigits(n) ==
    IF n < 10 THEN <<48 + n>> ELSE DecDigits(n \div 10) \o <<48 + (n % 10)>>

RECURSIVE Pow10(_)
Pow10(n) == IF n = 0 THEN 1 ELSE 10 * Pow10(n - 1)

\* Coordinates are sampled as reals; here a sample is a whole number of units,
\* ten to a unit of the last decimal that {:07.4} prints for the minutes.
UnitsPerMinute == 10 * Pow10(MinDecimals)
UnitsPerDegree == MinPerDeg * UnitsPerMinute
Abs(x) == IF x < 0 THEN -x ELSE x

\* {:.4}: the nearest value with MinDecimals decimals (no sample is a tie).
RoundToDecimals(units) == (units + 5) \div 10

\* format!("{:07.4}", minutes): integer part, '.', MinDecimals decimals, then
\* zeros in front up to MinWidth.
FormatMinutes(units) ==
    LET r == RoundToDecimals(units)
    IN ZeroPad(DecDigits(r \div Pow10(MinDecimals)) \o <<46>>
               \o ZeroPad(DecDigits(r % Pow10(MinDecimals)), MinDecimals), MinWidth)

\* generate_location for the sampled latitude and longitude: 'N' = 78, 'S' = 83,
\* 'E' = 69, 'W' = 87.
generate_location(latitude, longitude) ==
    LET lat_deg == Abs(latitude) \div UnitsPerDegree
        lat_min == Abs(latitude) - lat_deg * UnitsPerDegree
        lon_deg == Abs(longitude) \div UnitsPerDegree
        lon_min == Abs(longitude) - lon_deg * UnitsPerDegree
    IN [kind |-> "location",
        latitude |-> ZeroPad(DecDigits(lat_deg), LatDegWidth) \o FormatMinutes(lat_min),
        ns |-> IF latitude >= 0 THEN 78 ELSE 83,
        longitude |-> ZeroPad(DecDigits(lon_deg), LonDegWidth) \o FormatMinutes(lon_min),
        ew |-> IF longitude >= 0 THEN 69 ELSE 87]

\* A sample of sign s, d whole degrees and u units of minutes.
Coord(s, d, u) == s * (d * UnitsPerDegree + u)

\* random_uniform(-90.0, 90.0) and random_uniform(-180.0, 180.0): the ends of
\* the ranges, zero and its neighbour, and minutes close to a whole degree.
LatSamples ==
    {Coord(1, 0, 0), Coord(-1, 0, 1), Coord(1, 5, 7 * UnitsPerMinute + 50001),
     Coord(1, 12, UnitsPerDegree - 6), Coord(1, 12, UnitsPerDegree - 4),
     Coord(-1, 89, UnitsPerDegree - 4), Coord(-1, MaxLatDeg, 0)}
LonSamples ==
    {Coord(1, 0, 0), Coord(-1, 7, 12 * UnitsPerMinute + 34567),
     Coord(1, 100, 30 * UnitsPerMinute), Coord(1, 179, UnitsPerDegree - 4),
     Coord(-1, MaxLonDeg, 0)}

\* generate_sentences for num_satellites satellites when generate_gsv samples
\* num_msgs: the sentence types of the batch in order, or the panic of the slice.
generate_sentences(num_satellites, num_msgs) ==
    IF GsvPanics(num_satellites, num_msgs)
    THEN [kind |-> "panic"]
    ELSE [kind |-> "batch",
          types |-> <<"RMC", "GGA", "GLL", "GSA">> \o [i \in 1..num_msgs |-> "GSV"]]

\* ---------------------------------------------- generate_gsa (pure part)
\* Constellation as its discriminant: GPS 0, GLONASS 1, GALILEO 2, BEIDOU 3, QZSS 4.
\* Constellation::get_random: Uniform::from(0..Constellation::len() - 1), upper
\* end excluded, so the last discriminant is never drawn.
get_random == 0..((ConstellationLen - 1) - 1)

\* Constellation::to_code: "GP", "GL", "GA", "GB", "GQ".
to_code(c) ==
    <<71, CASE c = 0 -> 80 [] c = 1 -> 76 [] c = 2 -> 65 [] c = 3 -> 66 [] OTHER -> 81>>

\* Satellite::new_random for the constellations get_random draws: ends of the
\* id ranges, with one id that GPS and GALILEO share.
SatelliteSamples ==
    {s \in {[constellation |-> 0, id |-> GpsIdMin],
            [constellation |-> 0, id |-> GpsIdMaxExcl - 1],
            [constellation |-> 1, id |-> GlonassIdMin],
            [constellation |-> 2, id |-> GalileoIdMin],
            [constellation |-> 3, id |-> BeidouIdMaxExcl - 1]} :
        s.constellation \in get_random}

\* {:.1} of a DOP given in tenths: whole part, '.', one decimal.
FormatTenths(t) == DecDigits(t \div 10) \o <<46>> \o DecDigits(t % 10)

\* sats_by_constell[index]: the satellites of one constellation, in list order.
sats_by_constell(satellites, index) ==
    SelectSeq(satellites, LAMBDA sat : sat.constellation = index)

\* .map(|sat| sat.id.to_string()).collect::<Vec<String>>().join(",")
RECURSIVE JoinIds(_)
JoinIds(sats) ==
    IF sats = <<>> THEN <<>>
    ELSE IF Len(sats) = 1 THEN DecDigits(sats[1].id)
    ELSE DecDigits(sats[1].id) \o <<44>> \o JoinIds(Tail(sats))

\* Mutation of PushCommas: one comma less than the loop pushes.
PushCommasOneLess(len) == [i \in 1..(GsaSlots - len - 1) |-> 44]

\* for _ in constellations.len()..12 { sats_str.push(','); }
PushCommas(len) == [i \in 1..(GsaSlots - len) |-> 44]

\* The sentence of one non-empty constellation: format!("{constell}GSA,{mode},
\* {fix_type},{sats_str},{pdop:.1},{hdop:.1},{vdop:.1}") completed; mode is 'A'.
GsaSentence(constellations, pdop, hdop, vdop) ==
    LET constell == to_code(constellations[1].constellation)
        sats_str == JoinIds(constellations) \o PushCommas(Len(constellations))
    IN complete_sentence(constell \o <<71, 83, 65, 44, 65, 44>> \o DecDigits(FixType)
                         \o <<44>> \o sats_str
                         \o <<44>> \o FormatTenths(pdop)
                         \o <<44>> \o FormatTenths(hdop)
                         \o <<44>> \o FormatTenths(vdop))

\* (0..sats_by_constell.len()).for_each(...) from index i on; msgs.join("").
RECURSIVE GsaFrom(_, _, _, _, _)
GsaFrom(i, satellites, pdop, hdop, vdop) ==
    IF i >= ConstellationLen THEN <<>>
    ELSE (IF sats_by_constell(satellites, i) = <<>>
          THEN <<>>
          ELSE GsaSentence(sats_by_constell(satellites, i), pdop, hdop, vdop))
         \o GsaFrom(i + 1, satellites, pdop, hdop, vdop)

generate_gsa(satellites, pdop, hdop, vdop) ==
    [kind |-> "gsa", text |-> GsaFrom(0, satellites, pdop, hdop, vdop)]

\* generate_satellites: every list of up to MaxGsaList samples, and the longest
\* lists of one sample each.
SatelliteLists ==
    UNION {[1..n -> SatelliteSamples] : n \in MinSats..MaxGsaList}
    \cup {[i \in 1..(MaxSatsExcl - 1) |-> s] : s \in SatelliteSamples}

\* The three DOPs of one call: the ends of the range and a value between.
DopSamples == {<<DopMinTenths, 53, DopMaxTenths>>, <<DopMaxTenths, DopMinTenths, 53>>}

\* The calls made to the generator, with everything they can sample.
GenCalls ==
    {[fn |-> "complete_sentence", body |-> b] : b \in Bodies}
    \cup {[fn |-> "generate_location", latitude |-> a, longitude |-> o] :
             a \in LatSamples, o \in LonSamples}
    \cup UNION {{[fn |-> "generate_sentences", num_satellites |-> n, num_msgs |-> m] :
                    m \in MsgCounts(n)} : n \in SatCounts}
    \cup {[fn |-> "generate_gsa", satellites |-> l, dops |-> d] :
             l \in SatelliteLists, d \in DopSamples}

\* Everything but the generator call.
programVars == <<sigVars, mainVars, fsVars, fdVars, ptyVars, fwdVars, harnessVars>>

\* The generator alone: one call with sampled inputs, the process not started.
GenInit ==
    /\ ProcessInit
    /\ fs = [p \in Paths |-> "absent"]
    /\ genCall \in GenCalls
    /\ genRet = NoRet

\* self.complete_sentence(&sentence)
CallCompleteSentence ==
    /\ genCall.fn = "complete_sentence"
    /\ genRet = NoRet
    /\ genRet' = [kind |-> "sentence", bytes |-> complete_sentence(genCall.body)]
    /\ UNCHANGED <<genCall, programVars>>

\* let loc = self.generate_location();
CallGenerateLocation ==
    /\ genCall.fn = "generate_location"
    /\ genRet = NoRet
    /\ genRet' = generate_location(genCall.latitude, genCall.longitude)
    /\ UNCHANGED <<genCall, programVars>>

\* nmea_generator.generate_sentences()
CallGenerateSentences ==
    /\ genCall.fn = "generate_sentences"
    /\ genRet = NoRet
    /\ genRet' = generate_sentences(genCall.num_satellites, genCall.num_msgs)
    /\ UNCHANGED <<genCall, programVars>>

\* self.generate_gsa(&satellites)
CallGenerateGsa ==
    /\ genCall.fn = "generate_gsa"
    /\ genRet = NoRet
    /\ genRet' = generate_gsa(genCall.satellites, genCall.dops[1], genCall.dops[2],
                              genCall.dops[3])
    /\ UNCHANGED <<genCall, programVars>>

GenNext ==
    \/ CallCompleteSentence
    \/ CallGenerateLocation
    \/ CallGenerateSentences
    \/ CallGenerateGsa

GenSpec == GenInit /\ [][GenNext]_vars

\* ------------------------------------------- main: write_nmea_messages
\* close(n) on the descriptor table.
CloseFd(t, n) == IF n \in Fds THEN [t EXCEPT ![n] = "free"] ELSE t

\* cleanup is entered: from main after the loop, or by a caller invoking it again.
EnterCleanup ==
    /\ mainPc' = "join1"
    /\ cleanupCalls' = cleanupCalls + 1

\* OpenOptions::new().write(true).open(gps_input_path)?; an Err is printed by
\* main, which goes on to cleanup.
MainWriterOpen ==
    /\ mainPc = "wopen"
    /\ IF OpensAs(fs[1], fdt) # 0 /\ HasFree(fdt)
       THEN /\ mainPc' = "loop_check"
            /\ cleanupCalls' = cleanupCalls
            /\ writerFd' = LowestFree(fdt)
            /\ fdt' = [fdt EXCEPT ![LowestFree(fdt)] = SlaveName(OpensAs(fs[1], fdt))]
            /\ loopEnd' = loopEnd
       ELSE /\ EnterCleanup
            /\ loopEnd' = "error"
            /\ UNCHANGED <<writerFd, fdt>>
    /\ UNCHANGED <<exitCode, cleanupResult, rmFailed, bodiesAfterFlag>>
    /\ UNCHANGED <<masterFd, slaveFd, handle>>
    /\ UNCHANGED <<sigVars, fsVars, ptyVars, fwdVars, harnessVars>>
    /\ UNCHANGED genVars

\* Mutation of MainLoopCheck: the loop condition does not read the flag.
MainLoopCheckNoFlag ==
    /\ mainPc = "loop_check"
    /\ mainPc' = "loop_body"
    /\ UNCHANGED <<cleanupCalls, loopEnd, fdt, writerFd>>
    /\ UNCHANGED <<exitCode, cleanupResult, rmFailed, bodiesAfterFlag>>
    /\ UNCHANGED <<masterFd, slaveFd, handle>>
    /\ UNCHANGED <<sigVars, fsVars, ptyVars, fwdVars, harnessVars>>
    /\ UNCHANGED genVars

\* while !shutdown_event.load(SeqCst): on true the function returns Ok and the
\* writer is dropped, which closes its descriptor.
MainLoopCheck ==
    /\ mainPc = "loop_check"
    /\ IF shutdown
       THEN /\ EnterCleanup
            /\ loopEnd' = "flag"
            /\ fdt' = CloseFd(fdt, writerFd)
            /\ writerFd' = 0
       ELSE /\ mainPc' = "loop_body"
            /\ UNCHANGED <<cleanupCalls, loopEnd, fdt, writerFd>>
    /\ UNCHANGED <<exitCode, cleanupResult, rmFailed, bodiesAfterFlag>>
    /\ UNCHANGED <<masterFd, slaveFd, handle>>
    /\ UNCHANGED <<sigVars, fsVars, ptyVars, fwdVars, harnessVars>>
    /\ UNCHANGED genVars

\* The loop body: generate_sentences, write_all, flush, println, sleep.  A panic
\* of generate_sentences unwinds main: the process ends with status 101 and
\* cleanup is not run.  A write error returns Err, dropping the writer.
MainLoopBody ==
    /\ mainPc = "loop_body"
    /\ bodiesAfterFlag' = IF shutdown THEN bodiesAfterFlag + 1 ELSE bodiesAfterFlag
    /\ \E o \in GenerateOutcomes :
         IF o = "panic"
         THEN /\ ExitWith(ExitPanic)
              /\ UNCHANGED <<cleanupCalls, loopEnd, fdt, writerFd, toMaster, sent>>
         ELSE IF fdt[writerFd] = "s1" /\ MasterOpen(1, fdt)
              THEN /\ Len(toMaster[1]) < QueueCap
                   /\ sent < MaxPayload
                   /\ toMaster' = [toMaster EXCEPT ![1] = Append(@, sent + 1)]
                   /\ sent' = sent + 1
                   /\ mainPc' = "loop_check"
                   /\ UNCHANGED <<exitCode, cleanupCalls, loopEnd, fdt, writerFd>>
              ELSE /\ EnterCleanup
                   /\ loopEnd' = "error"
                   /\ fdt' = CloseFd(fdt, writerFd)
                   /\ writerFd' = 0
                   /\ UNCHANGED <<exitCode, toMaster, sent>>
    /\ UNCHANGED <<cleanupResult, rmFailed>>
    /\ UNCHANGED <<masterFd, slaveFd, handle, devNodes, toSlave, hOpen, back, rcv>>
    /\ UNCHANGED <<sigVars, fsVars, fwdVars>>
    /\ UNCHANGED genVars

\* Mutation of MainJoin: the handle is taken without waiting for the thread.
MainJoinNoWait(t) ==
    /\ mainPc = (IF t = 1 THEN "join1" ELSE "join2")
    /\ handle' = [handle EXCEPT ![t] = FALSE]
    /\ mainPc' = (IF t = 1 THEN "join2" ELSE "chk1")
    /\ UNCHANGED <<exitCode, cleanupCalls, cleanupResult, rmFailed, bodiesAfterFlag, loopEnd>>
    /\ UNCHANGED <<fdt, masterFd, slaveFd, writerFd>>
    /\ UNCHANGED <<sigVars, fsVars, ptyVars, fwdVars, harnessVars>>
    /\ UNCHANGED genVars

\* ------------------------------------------------------- main: cleanup
\* if let Some(thread) = self.forward_threadN.take() { thread.join() }
MainJoin(t) ==
    /\ mainPc = (IF t = 1 THEN "join1" ELSE "join2")
    /\ handle[t] => fwdPc[t] = "done"
    /\ handle' = [handle EXCEPT ![t] = FALSE]
    /\ mainPc' = (IF t = 1 THEN "join2" ELSE "chk1")
    /\ UNCHANGED <<exitCode, cleanupCalls, cleanupResult, rmFailed, bodiesAfterFlag, loopEnd>>
    /\ UNCHANGED <<fdt, masterFd, slaveFd, writerFd>>
    /\ UNCHANGED <<sigVars, fsVars, ptyVars, fwdVars, harnessVars>>
    /\ UNCHANGED genVars

\* if Path::new(path).exists() { ... }
MainRemoveCheck(p) ==
    /\ mainPc = (IF p = 1 THEN "chk1" ELSE "chk2")
    /\ mainPc' = IF PathExists(fs[p], Node(masterFd, fdt, devNodes))
                 THEN (IF p = 1 THEN "rm1" ELSE "rm2")
                 ELSE (IF p = 1 THEN "chk2" ELSE "cls1")
    /\ UNCHANGED <<exitCode, cleanupCalls, cleanupResult, rmFailed, bodiesAfterFlag, loopEnd>>
    /\ UNCHANGED <<sigVars, fsVars, fdVars, ptyVars, fwdVars, harnessVars>>
    /\ UNCHANGED genVars

\* fs::remove_file(path)?: unlink; an Err (the entry is gone) returns from
\* cleanup, and main's `?` returns it from main.
MainRemove(p) ==
    /\ mainPc = (IF p = 1 THEN "rm1" ELSE "rm2")
    /\ IF EntryPresent(fs[p])
       THEN /\ fs' = [fs EXCEPT ![p] = "absent"]
            /\ mainPc' = (IF p = 1 THEN "chk2" ELSE "cls1")
            /\ UNCHANGED <<exitCode, cleanupResult, rmFailed>>
       ELSE /\ ExitWith(ExitFailure)
            /\ cleanupResult' = "err"
            /\ rmFailed' = TRUE
            /\ fs' = fs
    /\ UNCHANGED <<cleanupCalls, bodiesAfterFlag, loopEnd, created>>
    /\ UNCHANGED <<sigVars, fdVars, ptyVars, fwdVars, harnessVars>>
    /\ UNCHANGED genVars

\* if let Some(fd) = self.slave_fdN.take() { let _ = close(fd); }
MainCloseSlave(k) ==
    /\ mainPc = (IF k = 1 THEN "cls1" ELSE "cls2")
    /\ fdt' = IF slaveFd[k] # 0 THEN CloseFd(fdt, slaveFd[k]) ELSE fdt
    /\ slaveFd' = [slaveFd EXCEPT ![k] = 0]
    /\ mainPc' = (IF k = 1 THEN "cls2" ELSE "cleanup_done")
    /\ cleanupResult' = (IF k = 1 THEN cleanupResult ELSE "ok")
    /\ UNCHANGED <<exitCode, cleanupCalls, rmFailed, bodiesAfterFlag, loopEnd>>
    /\ UNCHANGED <<masterFd, writerFd, handle>>
    /\ UNCHANGED <<sigVars, fsVars, ptyVars, fwdVars, harnessVars>>
    /\ UNCHANGED genVars

\* Mutation of MainReturn: main returns a failure after a successful cleanup.
MainReturnFailure ==
    /\ mainPc = "cleanup_done"
    /\ ExitWith(ExitFailure)
    /\ UNCHANGED <<cleanupCalls, cleanupResult, rmFailed, bodiesAfterFlag, loopEnd>>
    /\ UNCHANGED <<sigVars, fsVars, fdVars, ptyVars, fwdVars, harnessVars>>
    /\ UNCHANGED genVars

\* pty_handler.cleanup(..)?; Ok(()): main returns and the process exits with 0.
MainReturn ==
    /\ mainPc = "cleanup_done"
    /\ ExitWith(0)
    /\ UNCHANGED <<cleanupCalls, cleanupResult, rmFailed, bodiesAfterFlag, loopEnd>>
    /\ UNCHANGED <<sigVars, fsVars, fdVars, ptyVars, fwdVars, harnessVars>>
    /\ UNCHANGED genVars

\* A caller invokes cleanup once more on the same handler.
MainCleanupAgain ==
    /\ mainPc = "cleanup_done"
    /\ cleanupCalls < MaxCleanups
    /\ EnterCleanup
    /\ UNCHANGED <<exitCode, cleanupResult, rmFailed, bodiesAfterFlag, loopEnd>>
    /\ UNCHANGED <<sigVars, fsVars, fdVars, ptyVars, fwdVars, harnessVars>>
    /\ UNCHANGED genVars

\* --------------------------------------------------- forwarding threads
\* Thread t reads master_fd<t> and writes to the other master descriptor; both
\* are numbers captured when the thread was spawned.
SrcFd(t) == masterFd[t]
DstFd(t) == masterFd[3 - t]

\* The bytes a descriptor's file has ready for read(2).
Readable(f) ==
    CASE f = "m1" -> toMaster[1]
      [] f = "m2" -> toMaster[2]
      [] f = "s1" -> toSlave[1]
      [] f = "s2" -> toSlave[2]
      [] OTHER -> <<>>

\* read(2) fails for good: the number is not open (EBADF), or it is a master
\* with nothing queued whose replica nobody holds open (EIO).
ReadFails(f) ==
    \/ f = "free"
    \/ \E k \in Ptys : /\ f = MasterName(k)
                       /\ toMaster[k] = <<>>
                       /\ SlaveOpens(k, fdt, hOpen) = 0

\* Reads that complete while the flag is true are counted (up to 2).
CountRead(t) ==
    readsAfterFlag' = [readsAfterFlag EXCEPT ![t] = IF shutdown THEN Min(@ + 1, 2) ELSE @]

\* Mutation of FwdCheck: the loop condition does not read the flag.
FwdCheckIgnoresFlag(t) ==
    /\ Alive
    /\ fwdPc[t] = "check"
    /\ fwdPc' = [fwdPc EXCEPT ![t] = "read"]
    /\ UNCHANGED <<buf, readsAfterFlag, lossy>>
    /\ UNCHANGED <<sigVars, mainVars, fsVars, fdVars, ptyVars, harnessVars>>
    /\ UNCHANGED genVars

\* while !shutdown_event_clone.load(SeqCst)
FwdCheck(t) ==
    /\ Alive
    /\ fwdPc[t] = "check"
    /\ fwdPc' = [fwdPc EXCEPT ![t] = IF shutdown THEN "close" ELSE "read"]
    /\ readsAfterFlag' = [readsAfterFlag EXCEPT ![t] = IF shutdown THEN 0 ELSE @]
    /\ UNCHANGED <<buf, lossy>>
    /\ UNCHANGED <<sigVars, mainVars, fsVars, fdVars, ptyVars, harnessVars>>
    /\ UNCHANGED genVars

\* libc::read returned n > 0: up to buf.len() of the queued bytes.
FwdReadData(t) ==
    /\ Alive
    /\ fwdPc[t] = "read"
    /\ Readable(fdt[SrcFd(t)]) # <<>>
    /\ LET f == fdt[SrcFd(t)]
           n == Min(BufSize, Len(Readable(f)))
           rest == SubSeq(Readable(f), n + 1, Len(Readable(f)))
       IN /\ buf' = [buf EXCEPT ![t] = SubSeq(Readable(f), 1, n)]
          /\ toMaster' = [k \in Ptys |-> IF f = MasterName(k) THEN rest ELSE toMaster[k]]
          /\ toSlave' = [k \in Ptys |-> IF f = SlaveName(k) THEN rest ELSE toSlave[k]]
    /\ fwdPc' = [fwdPc EXCEPT ![t] = "write"]
    /\ CountRead(t)
    /\ UNCHANGED <<lossy, devNodes>>
    /\ UNCHANGED <<sigVars, mainVars, fsVars, fdVars, harnessVars>>
    /\ UNCHANGED genVars

\* Mutation of FwdReadZero: a zero-byte read is taken for the end of the stream.
FwdReadZeroBreaks(t) ==
    /\ Alive
    /\ fwdPc[t] = "read"
    /\ fdt[SrcFd(t)] # "free"
    /\ fwdPc' = [fwdPc EXCEPT ![t] = "close"]
    /\ CountRead(t)
    /\ UNCHANGED <<buf, lossy>>
    /\ UNCHANGED <<sigVars, mainVars, fsVars, fdVars, ptyVars, harnessVars>>
    /\ UNCHANGED genVars

\* libc::read returned 0: `0 => {}`, back to the loop condition.
FwdReadZero(t) ==
    /\ Alive
    /\ fwdPc[t] = "read"
    /\ fdt[SrcFd(t)] # "free"
    /\ fwdPc' = [fwdPc EXCEPT ![t] = "check"]
    /\ CountRead(t)
    /\ UNCHANGED <<buf, lossy>>
    /\ UNCHANGED <<sigVars, mainVars, fsVars, fdVars, ptyVars, harnessVars>>
    /\ UNCHANGED genVars

\* libc::read returned -1 with EINTR: `continue`, back to the loop condition.
FwdReadInterrupted(t) ==
    /\ Alive
    /\ fwdPc[t] = "read"
    /\ fdt[SrcFd(t)] # "free"
    /\ fwdPc' = [fwdPc EXCEPT ![t] = "check"]
    /\ CountRead(t)
    /\ UNCHANGED <<buf, lossy>>
    /\ UNCHANGED <<sigVars, mainVars, fsVars, fdVars, ptyVars, harnessVars>>
    /\ UNCHANGED genVars

\* Mutation of FwdReadError: a terminal read error also requests shutdown.
FwdReadErrorSignals(t) ==
    /\ Alive
    /\ fwdPc[t] = "read"
    /\ ReadFails(fdt[SrcFd(t)])
    /\ fwdPc' = [fwdPc EXCEPT ![t] = "close"]
    /\ CountRead(t)
    /\ shutdown' = TRUE
    /\ UNCHANGED <<buf, lossy, sigPending, sigHandled>>
    /\ UNCHANGED <<mainVars, fsVars, fdVars, ptyVars, harnessVars>>
    /\ UNCHANGED genVars

\* libc::read returned -1 with another error: `break`.
FwdReadError(t) ==
    /\ Alive
    /\ fwdPc[t] = "read"
    /\ ReadFails(fdt[SrcFd(t)])
    /\ fwdPc' = [fwdPc EXCEPT ![t] = "close"]
    /\ CountRead(t)
    /\ UNCHANGED <<buf, lossy>>
    /\ UNCHANGED <<sigVars, mainVars, fsVars, fdVars, ptyVars, harnessVars>>
    /\ UNCHANGED genVars

\* Bytes the destination can take from a write of n bytes: none when the number
\* is not open or is a master whose replica nobody holds open (EBADF, EIO).
WriteRoom(f) ==
    CASE f = "m1" -> IF SlaveOpens(1, fdt, hOpen) > 0 THEN QueueCap - Len(toSlave[1]) ELSE 0
      [] f = "m2" -> IF SlaveOpens(2, fdt, hOpen) > 0 THEN QueueCap - Len(toSlave[2]) ELSE 0
      [] f = "s1" -> IF MasterOpen(1, fdt) THEN QueueCap - Len(toMaster[1]) ELSE 0
      [] f = "s2" -> IF MasterOpen(2, fdt) THEN QueueCap - Len(toMaster[2]) ELSE 0
      [] OTHER -> 0

\* Mutation of Delivered: the buffer is handed over last byte first.
DeliveredBackwards(b, c) == [i \in 1..c |-> b[c + 1 - i]]

\* The bytes a write of b that returns c hands to the destination.
Delivered(b, c) == SubSeq(b, 1, c)

\* Mutation of FwdWrite: a write that hands over fewer bytes than given ends the loop.
FwdWriteBreaksOnError(t) ==
    /\ Alive
    /\ fwdPc[t] = "write"
    /\ LET f == fdt[DstFd(t)]
       IN \E c \in 0..Min(Len(buf[t]), WriteRoom(f)) :
            /\ toSlave' = [k \in Ptys |-> IF f = MasterName(k)
                                          THEN toSlave[k] \o Delivered(buf[t], c)
                                          ELSE toSlave[k]]
            /\ toMaster' = [k \in Ptys |-> IF f = SlaveName(k)
                                           THEN toMaster[k] \o Delivered(buf[t], c)
                                           ELSE toMaster[k]]
            /\ lossy' = (lossy \/ c < Len(buf[t]) \/ f \notin {"m1", "m2"})
            /\ fwdPc' = [fwdPc EXCEPT ![t] = IF c < Len(buf[t]) THEN "close" ELSE "check"]
    /\ buf' = [buf EXCEPT ![t] = <<>>]
    /\ UNCHANGED <<readsAfterFlag, devNodes>>
    /\ UNCHANGED <<sigVars, mainVars, fsVars, fdVars, harnessVars>>
    /\ UNCHANGED genVars

\* Mutation of FwdWrite: the bytes handed over are written a second time.
FwdWriteTwice(t) ==
    /\ Alive
    /\ fwdPc[t] = "write"
    /\ LET f == fdt[DstFd(t)]
       IN \E c \in 0..Min(Len(buf[t]), WriteRoom(f)) :
            /\ toSlave' = [k \in Ptys |-> IF f = MasterName(k)
                                          THEN toSlave[k] \o Delivered(buf[t], c) \o Delivered(buf[t], c)
                                          ELSE toSlave[k]]
            /\ toMaster' = [k \in Ptys |-> IF f = SlaveName(k)
                                           THEN toMaster[k] \o Delivered(buf[t], c)
                                           ELSE toMaster[k]]
            /\ lossy' = (lossy \/ c < Len(buf[t]) \/ f \notin {"m1", "m2"})
    /\ buf' = [buf EXCEPT ![t] = <<>>]
    /\ fwdPc' = [fwdPc EXCEPT ![t] = "check"]
    /\ UNCHANGED <<readsAfterFlag, devNodes>>
    /\ UNCHANGED <<sigVars, mainVars, fsVars, fdVars, harnessVars>>
    /\ UNCHANGED genVars

\* Mutation of FwdWrite: after the write the thread reads again at once.
FwdWriteThenRead(t) ==
    /\ Alive
    /\ fwdPc[t] = "write"
    /\ LET f == fdt[DstFd(t)]
       IN \E c \in 0..Min(Len(buf[t]), WriteRoom(f)) :
            /\ toSlave' = [k \in Ptys |-> IF f = MasterName(k)
                                          THEN toSlave[k] \o Delivered(buf[t], c)
                                          ELSE toSlave[k]]
            /\ toMaster' = [k \in Ptys |-> IF f = SlaveName(k)
                                           THEN toMaster[k] \o Delivered(buf[t], c)
                                           ELSE toMaster[k]]
            /\ lossy' = (lossy \/ c < Len(buf[t]) \/ f \notin {"m1", "m2"})
    /\ buf' = [buf EXCEPT ![t] = <<>>]
    /\ fwdPc' = [fwdPc EXCEPT ![t] = "read"]
    /\ UNCHANGED <<readsAfterFlag, devNodes>>
    /\ UNCHANGED <<sigVars, mainVars, fsVars, fdVars, harnessVars>>
    /\ UNCHANGED genVars

\* let _ = libc::write(dst, buf, n): one write, its result (an error, a short
\* count c < n, or n) discarded; then the loop condition again.
FwdWrite(t) ==
    /\ Alive
    /\ fwdPc[t] = "write"
    /\ LET f == fdt[DstFd(t)]
       IN \E c \in 0..Min(Len(buf[t]), WriteRoom(f)) :
            /\ toSlave' = [k \in Ptys |-> IF f = MasterName(k)
                                          THEN toSlave[k] \o Delivered(buf[t], c)
                                          ELSE toSlave[k]]
            /\ toMaster' = [k \in Ptys |-> IF f = SlaveName(k)
                                           THEN toMaster[k] \o Delivered(buf[t], c)
                                           ELSE toMaster[k]]
            /\ lossy' = (lossy \/ c < Len(buf[t]) \/ f \notin {"m1", "m2"})
    /\ buf' = [buf EXCEPT ![t] = <<>>]
    /\ fwdPc' = [fwdPc EXCEPT ![t] = "check"]
    /\ UNCHANGED <<readsAfterFlag, devNodes>>
    /\ UNCHANGED <<sigVars, mainVars, fsVars, fdVars, harnessVars>>
    /\ UNCHANGED genVars

\* let _ = close(master_fdN): the thread ends.  Closing a master destroys the
\* pty: what is queued is gone, the consumer's descriptor of its replica is hung
\* up, and the replica device path disappears (devpts) or stays as a dead node
\* (static device nodes), as the platform has it.
FwdClose(t) ==
    /\ Alive
    /\ fwdPc[t] = "close"
    /\ LET f == fdt[SrcFd(t)]
       IN /\ fdt' = CloseFd(fdt, SrcFd(t))
          /\ IF devNodes = "unknown" /\ f \in {"m1", "m2"}
             THEN devNodes' \in {"removed", "kept"}
             ELSE devNodes' = devNodes
          /\ toMaster' = [k \in Ptys |-> IF f = MasterName(k) THEN <<>> ELSE toMaster[k]]
          /\ toSlave' = [k \in Ptys |-> IF f = MasterName(k) THEN <<>> ELSE toSlave[k]]
          /\ hOpen' = [k \in Ptys |-> hOpen[k] /\ f # MasterName(k)]
          /\ lossy' = (lossy \/ \E k \in Ptys : f = MasterName(k) /\ toSlave[k] \o toMaster[k] # <<>>)
    /\ fwdPc' = [fwdPc EXCEPT ![t] = "done"]
    /\ UNCHANGED <<buf, readsAfterFlag>>
    /\ UNCHANGED <<masterFd, slaveFd, writerFd, handle>>
    /\ UNCHANGED <<sent, back, rcv>>
    /\ UNCHANGED <<sigVars, mainVars, fsVars>>
    /\ UNCHANGED genVars

\* ---------------------------------------------------------- environment
\* The published links exist from the end of setup on.
Published == mainPc \notin {"args", "pty1", "pty2", "link1", "link2", "open1", "open2", "exited"}

\* The consumer process opens the replica device through the published path p.
HarnessOpen(p) ==
    /\ Published
    /\ ~hOpen[p]
    /\ OpensAs(fs[p], fdt) = p
    /\ hOpen' = [hOpen EXCEPT ![p] = TRUE]
    /\ UNCHANGED <<sent, back, rcv>>
    /\ UNCHANGED <<sigVars, mainVars, fsVars, fdVars, ptyVars, fwdVars>>
    /\ UNCHANGED genVars

\* The consumer process closes it again.
HarnessClose(p) ==
    /\ Alive
    /\ hOpen[p]
    /\ hOpen' = [hOpen EXCEPT ![p] = FALSE]
    /\ UNCHANGED <<sent, back, rcv>>
    /\ UNCHANGED <<sigVars, mainVars, fsVars, fdVars, ptyVars, fwdVars>>
    /\ UNCHANGED genVars

\* The next byte of the payload is written to the replica at gps_input_path.
HarnessWrite ==
    /\ Alive
    /\ hOpen[1]
    /\ MasterOpen(1, fdt)
    /\ sent < MaxPayload
    /\ Len(toMaster[1]) < QueueCap
    /\ toMaster' = [toMaster EXCEPT ![1] = Append(@, sent + 1)]
    /\ sent' = sent + 1
    /\ UNCHANGED <<hOpen, back, rcv, devNodes, toSlave>>
    /\ UNCHANGED <<sigVars, mainVars, fsVars, fdVars, fwdVars>>
    /\ UNCHANGED genVars

\* A byte (tag 0) is written to the replica at gps_output_path.
HarnessWriteBack ==
    /\ Alive
    /\ hOpen[2]
    /\ MasterOpen(2, fdt)
    /\ back < MaxBack
    /\ Len(toMaster[2]) < QueueCap
    /\ toMaster' = [toMaster EXCEPT ![2] = Append(@, 0)]
    /\ back' = back + 1
    /\ UNCHANGED <<hOpen, sent, rcv, devNodes, toSlave>>
    /\ UNCHANGED <<sigVars, mainVars, fsVars, fdVars, fwdVars>>
    /\ UNCHANGED genVars

\* The reader at gps_output_path reads what is queued for it.
HarnessRead ==
    /\ Alive
    /\ hOpen[2]
    /\ toSlave[2] # <<>>
    /\ rcv' = rcv \o toSlave[2]
    /\ toSlave' = [toSlave EXCEPT ![2] = <<>>]
    /\ UNCHANGED <<hOpen, sent, back, devNodes, toMaster>>
    /\ UNCHANGED <<sigVars, mainVars, fsVars, fdVars, fwdVars>>
    /\ UNCHANGED genVars

\* An external process removes a published path.  It is followed from the moment
\* cleanup looks at the paths: one removed earlier is in the same state by then.
ExternalRemove(p) ==
    /\ mainPc \in {"chk1", "rm1", "chk2", "rm2"}
    /\ EntryPresent(fs[p])
    /\ fs' = [fs EXCEPT ![p] = "absent"]
    /\ UNCHANGED created
    /\ UNCHANGED <<sigVars, mainVars, fdVars, ptyVars, fwdVars, harnessVars>>
    /\ UNCHANGED genVars

\* ------------------------------------------------------------ scheduling
\* Steps a forwarding thread takes without an event from outside the process.
FwdOwnStep(t) ==
    FwdCheck(t) \/ FwdReadData(t) \/ FwdReadError(t) \/ FwdWrite(t) \/ FwdClose(t)

\* Steps of the main thread, from argument parsing to the return from main.
MainStep ==
    \/ MainArgs
    \/ \E k \in Ptys : MainCreatePty(k)
    \/ \E p \in Paths : MainSymlink(p)
    \/ \E p \in Paths : MainOpenSlave(p)
    \/ MainStartForwarding
    \/ MainWriterOpen
    \/ MainLoopCheck
    \/ MainLoopBody
    \/ \E t \in Tasks : MainJoin(t)
    \/ \E p \in Paths : MainRemoveCheck(p)
    \/ \E p \in Paths : MainRemove(p)
    \/ \E k \in Ptys : MainCloseSlave(k)
    \/ MainReturn

\* ---------------------------------------------------------------- claims

\* The tags 1..n in order.
Tags(n) == [i \in 1..n |-> i]
StrictlyIncreasing(q) == \A i \in 1..(Len(q) - 1) : q[i] < q[i + 1]

\* Payload bytes on their way from gps_input_path to gps_output_path.
InTransit == toSlave[2] \o buf[1] \o toMaster[1]

\* C1: the shutdown flag starts false and, once true, is true in every later
\* state; a further interrupt handled while it is true leaves it true.
C1_FlagMonotonic == ~shutdown /\ [][shutdown => shutdown']_vars

\* C1 witness: a second interrupt was handled while the flag was already true.
C1_SecondInterruptHandled == shutdown /\ sigHandled = 2

\* C2: whenever the flag is true the signal thread has handled a delivered
\* SIGINT, and every step that changes the flag is a store of the signal thread.
C2_NoFalsePositive ==
    /\ [](shutdown => sigHandled >= 1)
    /\ [][shutdown' # shutdown => (sigPending > 0 /\ sigHandled' = sigHandled + 1)]_vars

\* C2 witness: the flag is true, set by the signal thread, after a forwarding
\* thread has hit a terminal read error and ended and main has run its loop check.
C2_FlagSetWhileOthersRan ==
    /\ shutdown
    /\ sigHandled = 1
    /\ \E t \in Tasks : fwdPc[t] = "done"
    /\ loopEnd = "flag"

\* C3: with the flag true the simulation loop runs at most one more iteration,
\* and a loop check that sees the flag true leaves the loop without a write.
C3_AtMostOneMoreIteration ==
    /\ [](bodiesAfterFlag <= 1)
    /\ [][(mainPc = "loop_check" /\ shutdown /\ mainPc' # mainPc)
            => (mainPc' = "join1" /\ loopEnd' = "flag" /\ sent' = sent
                /\ toMaster' = toMaster /\ bodiesAfterFlag' = bodiesAfterFlag)]_vars

\* C3 witness: the loop was left by a check that saw the flag, cleanup is running.
C3_LoopLeftOnFlag == shutdown /\ loopEnd = "flag" /\ mainPc = "join1"

\* C4 (as amended): while it runs, a forwarding thread completes at most one read
\* with the flag already true.
C4_AtMostOneReadAfterFlag == \A t \in Tasks : readsAfterFlag[t] <= 1

\* C4 witness: a thread that passed its check before the flag was set has
\* completed its read after it, and the other thread has already ended.
C4_ReadCompletedAfterFlag ==
    \E t \in Tasks : readsAfterFlag[t] = 1 /\ fwdPc[t] = "check" /\ fwdPc[3 - t] = "done"

\* C4 (original): once the flag is true every running forwarding thread ends,
\* in every interleaving, also when it is inside read() with no incoming data.
C4_TerminatesInEveryInterleaving ==
    \A t \in Tasks :
        (shutdown /\ fwdPc[t] \in {"check", "read", "write", "close"})
            ~> (fwdPc[t] = "done" \/ ~Alive)

C6_NoLinkLeftAtExit ==
    mainPc = "exited" => \A p \in created : fs[p] # PtsOf(p)

\* C7: cleanup returns no error, also when invoked twice, and once it has
\* returned neither published path exists.
C7_CleanupIdempotent ==
    /\ (cleanupCalls = MaxCleanups /\ mainPc = "cleanup_done" /\ ~rmFailed)
          => cleanupResult = "ok"
    /\ (mainPc = "cleanup_done" /\ cleanupResult = "ok")
          => \A p \in Paths : ~EntryPresent(fs[p])

\* C8: a published path that is already gone when cleanup comes to remove it,
\* removed before or during cleanup, is not reported as an error.
C8_AbsentIsSuccess == ~(rmFailed /\ cleanupResult = "err")

\* C9: a failed removal in cleanup does not stop the remaining steps (both
\* slave_fd fields taken) and does not make the process exit with a failure.
C9_CleanupFailureContained ==
    (mainPc = "exited" /\ rmFailed)
        => (exitCode = 0 /\ \A k \in Ptys : slaveFd[k] = 0)

\* C10: whatever was at the link path (nothing, a regular file, a live or a
\* dangling symlink), create_symlink returns Ok: once both ptys exist, setup
\* never ends before both links are created.
C10_PublishReplaces ==
    ~(mainPc = "exited" /\ masterFd[1] # 0 /\ masterFd[2] # 0 /\ created # Paths)

\* C11: every close the process issues is on a descriptor number its closer
\* still owns: when cleanup closes a recorded slave_fd, that number names the
\* replica descriptor the handler opened for it.
C11_ClosesOwnedOnly ==
    [][\A k \in Ptys :
         (mainPc = (IF k = 1 THEN "cls1" ELSE "cls2") /\ mainPc' # mainPc /\ slaveFd[k] # 0)
            => fdt[slaveFd[k]] = SlaveName(k)]_vars

\* C12: a terminal read failure in one forwarding thread does not make the
\* simulation loop fail: with thread 1 ended on a read error (no shutdown
\* requested), write_nmea_messages still opens its writer and enters the loop.
C12_LoopSurvivesReadFailure ==
    [][(mainPc = "wopen" /\ mainPc' # mainPc /\ ~shutdown /\ fwdPc[1] = "done" /\ HasFree(fdt))
          => mainPc' = "loop_check"]_vars

\* C13: after an interrupt has set the flag the process eventually finishes,
\* with the links that setup created removed.
C13_FinishesAfterInterrupt ==
    shutdown ~> (mainPc = "exited" /\ \A p \in created : fs[p] # PtsOf(p))

\* C14: the process exits with 0 whenever cleanup has completed (in particular
\* after an interrupt seen by the simulation loop), and with 1 whenever it
\* exits at the argument check.
C14_ExitCodes ==
    /\ []((mainPc = "exited" /\ cleanupResult = "ok") => exitCode = 0)
    /\ [][(mainPc = "args" /\ mainPc' = "exited") => exitCode' = ExitFailure]_vars

\* C14 witness: the loop was left on the flag, cleanup completed, exit status 0.
C14_GracefulExit ==
    mainPc = "exited" /\ loopEnd = "flag" /\ cleanupResult = "ok" /\ exitCode = 0

\* C15 (as amended): when create_symlink fails during setup, the process exits
\* with status 1 and the step leaves the shutdown flag as it was.
C15_PublishFailureAborts ==
    [][(mainPc \in {"link1", "link2"} /\ mainPc' = "exited")
          => (exitCode' = ExitFailure /\ shutdown' = shutdown)]_vars

\* C15 witness: setup has failed at a link, the process is gone, the flag is false.
C15_AbortedWithFlagFalse ==
    /\ mainPc = "exited"
    /\ exitCode = ExitFailure
    /\ masterFd[2] # 0
    /\ slaveFd[1] = 0
    /\ created # Paths
    /\ ~shutdown
    /\ sigPending = 0

\* C15 (original): once setup has failed at a link, the shutdown flag is true.
C15_FlagSetOnPublishFailure ==
    (mainPc = "exited" /\ masterFd[2] # 0 /\ created # Paths) => shutdown

\* C19: dispatch on the read result: a zero-byte read and an interrupted read
\* send the thread back to its loop condition, any other read error ends the
\* loop, and the loop ends in no other way than such an error or a loop
\* condition that saw the flag true.
C19_ReadDispatch ==
    [][\A t \in Tasks :
         /\ (FwdReadZero(t) \/ FwdReadInterrupted(t)) => fwdPc'[t] = "check"
         /\ FwdReadError(t) => fwdPc'[t] = "close"
         /\ (fwdPc[t] # "close" /\ fwdPc'[t] = "close")
               => \/ fwdPc[t] = "read" /\ ReadFails(fdt[SrcFd(t)])
                  \/ fwdPc[t] = "check" /\ shutdown
         /\ (fwdPc[t] # "done" /\ fwdPc'[t] = "done") => fwdPc[t] = "close"]_vars

\* C19 witness: with no byte ever written by the consumer, a thread has completed
\* a read after the flag was set and is back at its loop condition: the read
\* brought nothing (zero bytes or interrupted) and did not end the thread.
C19_EmptyReadContinues ==
    \E t \in Tasks :
        /\ shutdown
        /\ readsAfterFlag[t] = 1
        /\ fwdPc[t] = "check"
        /\ sent = 0
        /\ back = 0

\* C20: a read is only ever entered from the loop condition with the flag
\* false, every completed read (data, nothing, interrupted, error) leaves the
\* read, and a loop condition that sees the flag true goes to the close.
C20_CheckBeforeEveryRead ==
    [][\A t \in Tasks :
         /\ (fwdPc[t] # "read" /\ fwdPc'[t] = "read") => (fwdPc[t] = "check" /\ ~shutdown)
         /\ (fwdPc[t] = "read" /\ readsAfterFlag'[t] # readsAfterFlag[t]) => fwdPc'[t] # "read"
         /\ (fwdPc[t] = "check" /\ shutdown /\ fwdPc'[t] # "check") => fwdPc'[t] = "close"]_vars

\* C20 witness: a thread that had read and forwarded data came back to the
\* loop condition, saw the flag true there and is about to close.
C20_FlagSeenAfterData ==
    \E t \in Tasks : shutdown /\ fwdPc[t] = "close" /\ readsAfterFlag[t] = 0 /\ rcv # <<>>
                       /\ fdt[SrcFd(t)] = MasterName(t) /\ SlaveOpens(t, fdt, hOpen) > 0

\* Reading a rendered field back.
UpperHexChars == (48..57) \cup (65..70)
HexVal(c) == IF c <= 57 THEN c - 48 ELSE c - 55
BitOf(v, i) == (v \div (2 ^ i)) % 2
OnesAt(s, i) == Cardinality({j \in 1..Len(s) : BitOf(s[j], i) = 1})
IsDigit(c) == c \in 48..57
WholeMinutes(s, w) == (s[w + 1] - 48) * 10 + (s[w + 2] - 48)

\* C16: complete_sentence(body) is '$', the body, '*', two upper-case hex
\* digits and CR LF, and the two digits read as the byte whose every bit is the
\* parity of that bit over the bytes of the body (their XOR).
C16_SentenceFraming ==
    (genCall.fn = "complete_sentence" /\ genRet.kind = "sentence") =>
        LET body == genCall.body
            out == genRet.bytes
            n == Len(body)
        IN /\ Len(out) = n + 6
           /\ out[1] = 36
           /\ SubSeq(out, 2, n + 1) = body
           /\ out[n + 2] = 42
           /\ {out[n + 3], out[n + 4]} \subseteq UpperHexChars
           /\ \A i \in 0..7 :
                 BitOf(16 * HexVal(out[n + 3]) + HexVal(out[n + 4]), i) = OnesAt(body, i) % 2
           /\ out[n + 5] = 13
           /\ out[n + 6] = 10

\* C16 witness: the body "$*" has come back as "$$**0E\r\n": a checksum below
\* 16, zero-padded, with a letter digit.
C16_PaddedChecksum ==
    /\ genCall = [fn |-> "complete_sentence", body |-> <<36, 42>>]
    /\ genRet = [kind |-> "sentence", bytes |-> <<36, 36, 42, 42, 48, 69, 13, 10>>]

\* C17: every call of generate_sentences returns a batch, and the batch holds
\* at least one each of RMC, GGA, GLL, GSA and GSV.
C17_BatchComplete ==
    (genCall.fn = "generate_sentences" /\ genRet.kind # "none") =>
        /\ genRet.kind = "batch"
        /\ {"RMC", "GGA", "GLL", "GSA", "GSV"}
              \subseteq {genRet.types[i] : i \in 1..Len(genRet.types)}

\* C18: generate_location renders the degrees zero-padded to 2 and 3 digits,
\* the minutes as two digits, '.', four digits with a value below 60, and the
\* hemisphere letter is N (E) exactly when the sample is non-negative, else S (W).
C18_LocationRendering ==
    (genCall.fn = "generate_location" /\ genRet.kind = "location") =>
        LET lat == genRet.latitude
            lon == genRet.longitude
        IN /\ Len(lat) = LatDegWidth + MinWidth
           /\ Len(lon) = LonDegWidth + MinWidth
           /\ lat[LatDegWidth + 3] = 46
           /\ lon[LonDegWidth + 3] = 46
           /\ \A i \in 1..Len(lat) : i # LatDegWidth + 3 => IsDigit(lat[i])
           /\ \A i \in 1..Len(lon) : i # LonDegWidth + 3 => IsDigit(lon[i])
           /\ WholeMinutes(lat, LatDegWidth) < MinPerDeg
           /\ WholeMinutes(lon, LonDegWidth) < MinPerDeg
           /\ genRet.ns = (IF genCall.latitude >= 0 THEN 78 ELSE 83)
           /\ genRet.ew = (IF genCall.longitude >= 0 THEN 69 ELSE 87)

\* C21: a forwarding write that fails or is short does not end the thread: the
\* step after every write leads to the loop condition and leaves the thread's
\* source descriptor as it was.
C21_WriteErrorsSwallowed ==
    [][\A t \in Tasks :
         (fwdPc[t] = "write" /\ fwdPc'[t] # "write")
            => (fwdPc'[t] = "check" /\ fdt'[SrcFd(t)] = fdt[SrcFd(t)])]_vars

\* C21 witness: a write has dropped bytes (no master was closed, so nothing
\* else can have), and both threads run on with their sources open.
C21_RunningAfterFailedWrite ==
    /\ lossy
    /\ \A t \in Tasks : fwdPc[t] \in {"check", "read"} /\ fdt[SrcFd(t)] = MasterName(t)

\* C22: a read hands the thread between 1 and buf.len() bytes; the one write
\* that follows appends a prefix of exactly those bytes to the destination and
\* keeps nothing for a retry; what has arrived at the replica published at
\* gps_output_path is in the order written, no byte twice.
C22_OneWritePerRead ==
    /\ [](StrictlyIncreasing(rcv \o toSlave[2]))
    /\ [][\A t \in Tasks :
            /\ (fwdPc[t] = "read" /\ fwdPc'[t] = "write")
                  => (Len(buf'[t]) \in 1..BufSize
                      /\ buf'[t] = SubSeq(Readable(fdt[SrcFd(t)]), 1, Len(buf'[t])))
            /\ (fwdPc[t] = "write" /\ fwdPc'[t] # "write")
                  => /\ buf'[t] = <<>>
                     /\ \E c \in 0..Len(buf[t]) :
                          \A k \in Ptys :
                             /\ toSlave'[k] = IF fdt[DstFd(t)] = MasterName(k)
                                              THEN toSlave[k] \o SubSeq(buf[t], 1, c)
                                              ELSE toSlave[k]
                             /\ toMaster'[k] = IF fdt[DstFd(t)] = SlaveName(k)
                                               THEN toMaster[k] \o SubSeq(buf[t], 1, c)
                                               ELSE toMaster[k]]_vars

\* C22 witness: bytes 1 and 2 were read together, the write handed over only
\* byte 1 and was not retried; byte 3 followed with the next read.
C22_ShortWriteNotRetried == rcv = <<1, 3>> /\ sent = 3 /\ fwdPc[1] = "check" /\ buf[1] = <<>>

\* C23: order of the process's phases.  The forwarding threads start together,
\* in a step that finds both masters open and both links published; main opens
\* the writer and runs the simulation loop only with both threads spawned;
\* cleanup is entered only with write_nmea_messages returned (or from a
\* finished cleanup); the checks and removals of the links run only with both
\* threads finished and their handles taken.
C23_LifecycleOrder ==
    /\ [](\A t \in Tasks : fwdPc[t] # "idle" => (created = Paths /\ \A k \in Ptys : masterFd[k] # 0))
    /\ [](mainPc \in {"wopen", "loop_check", "loop_body"}
             => \A t \in Tasks : handle[t] /\ fwdPc[t] # "idle")
    /\ [](cleanupCalls > 0 => loopEnd # "no")
    /\ [](mainPc \in {"chk1", "rm1", "chk2", "rm2"}
             => \A t \in Tasks : ~handle[t] /\ fwdPc[t] = "done")
    /\ [][/\ (\E t \in Tasks : fwdPc[t] = "idle" /\ fwdPc'[t] # "idle")
               => /\ \A t \in Tasks : fwdPc[t] = "idle" /\ fwdPc'[t] # "idle"
                  /\ \A k \in Ptys : MasterOpen(k, fdt) /\ fs[k] = PtsOf(k)
          /\ cleanupCalls' # cleanupCalls
               => /\ mainPc \in {"wopen", "loop_check", "loop_body", "cleanup_done"}
                  /\ loopEnd' # "no"
          /\ (mainPc \in {"rm1", "rm2"} /\ fs' # fs /\ mainPc' # mainPc)
               => \A t \in Tasks : ~handle[t] /\ fwdPc[t] = "done"]_vars

\* C23 witness: cleanup after an interrupt is at the removal of the first
\* link, with both threads joined.
C23_RemovingAfterJoins ==
    /\ mainPc = "rm1" /\ loopEnd = "flag" /\ cleanupCalls = 1 /\ fs[1] = PtsOf(1)
    /\ \A t \in Tasks : ~handle[t] /\ fwdPc[t] = "done"

\* The pieces of s between the occurrences of byte c.
RECURSIVE SplitOn(_, _)
SplitOn(s, c) ==
    IF \A i \in 1..Len(s) : s[i] # c THEN <<s>>
    ELSE LET i == CHOOSE j \in 1..Len(s) : s[j] = c /\ \A k \in 1..(j - 1) : s[k] # c
         IN <<SubSeq(s, 1, i - 1)>> \o SplitOn(SubSeq(s, i + 1, Len(s)), c)

\* The sentences of a text, each without its line feed.
SentencesOf(text) ==
    LET pieces == SplitOn(text, 10) IN SubSeq(pieces, 1, Len(pieces) - 1)

\* The constellations that have a satellite in the list.
ActiveIn(satellites) == {satellites[i].constellation : i \in 1..Len(satellites)}

\* C24: the text generate_gsa returns holds one sentence for each constellation
\* with a satellite in the list and no other; that sentence begins with
\* '$', the constellation's code and "GSA", has 12 satellite fields between
\* the fix type and the three DOPs, and its non-empty satellite fields are the
\* ids of that constellation's satellites, in list order.
C24_OneGsaPerConstellation ==
    (genCall.fn = "generate_gsa" /\ genRet # NoRet) =>
        LET lines == SentencesOf(genRet.text)
            fields == [j \in 1..Len(lines) |-> SplitOn(lines[j], 44)]
        IN /\ Len(lines) = Cardinality(ActiveIn(genCall.satellites))
           /\ \A c \in ActiveIn(genCall.satellites) :
                \E j \in 1..Len(lines) :
                   /\ fields[j][1] = <<36>> \o to_code(c) \o <<71, 83, 65>>
                   /\ \A k \in 1..Len(lines) : fields[k][1] = fields[j][1] => k = j
                   /\ Len(fields[j]) = 3 + GsaSlots + 3
                   /\ SelectSeq(SubSeq(fields[j], 4, 3 + GsaSlots), LAMBDA f : f # <<>>)
                        = [i \in 1..Len(sats_by_constell(genCall.satellites, c)) |->
                              DecDigits(sats_by_constell(genCall.satellites, c)[i].id)]

\* C24 witness: a list with GPS, GALILEO and BEIDOU satellites and no GLONASS
\* one, where a GPS and a GALILEO satellite have the same id, gave three sentences.
C24_ThreeOfFourConstellations ==
    /\ genCall.fn = "generate_gsa"
    /\ genRet # NoRet
    /\ ActiveIn(genCall.satellites) = {0, 2, 3}
    /\ \E i, j \in 1..Len(genCall.satellites) :
          /\ genCall.satellites[i].constellation = 0
          /\ genCall.satellites[j].constellation = 2
          /\ genCall.satellites[i].id = genCall.satellites[j].id
    /\ Len(SentencesOf(genRet.text)) = 3

\* C25: in a call of generate_sentences with n satellites where generate_gsv
\* samples m messages, every message's range [start, end) has
\* start <= end <= n and at most 4 satellites, and every satellite index lies
\* in the range of exactly one message.
C25_GsvWithinList ==
    (genCall.fn = "generate_sentences" /\ genRet # NoRet) =>
        LET n == genCall.num_satellites
            m == genCall.num_msgs
        IN /\ \A i \in 0..(m - 1) :
                /\ GsvStart(i) <= GsvEnd(i, m, n)
                /\ GsvEnd(i, m, n) <= n
                /\ GsvEnd(i, m, n) - GsvStart(i) <= GsvChunk
           /\ \A k \in 0..(n - 1) :
                Cardinality({i \in 0..(m - 1) : GsvStart(i) <= k /\ k < GsvEnd(i, m, n)}) = 1

\* C26: a forwarding thread reads only while its source number names its own
\* master, and writes only while its destination number names the other
\* thread's master: never a number that was closed, or that was closed and
\* given to another open file.
C26_NoUseAfterClose ==
    [][\A t \in Tasks :
         /\ (fwdPc[t] = "read" /\ fwdPc'[t] # "read") => fdt[SrcFd(t)] = MasterName(t)
         /\ (fwdPc[t] = "write" /\ fwdPc'[t] # "write") => fdt[DstFd(t)] = MasterName(3 - t)]_vars

\* C27: when write_nmea_messages has returned an error and no interrupt has set
\* the flag, cleanup finishes (unless an interrupt arrives after all): both
\* joins return and the links the process created are gone.
C27_CleanupAfterLoopError ==
    (loopEnd = "error" /\ ~shutdown)
        ~> (shutdown
            \/ (/\ mainPc \in {"cleanup_done", "exited"}
                /\ \A t \in Tasks : ~handle[t] /\ fwdPc[t] = "done"
                /\ \A p \in created : fs[p] # PtsOf(p)))

Next ==
    \/ Interrupt
    \/ SignalThread
    \/ MainArgs
    \/ \E k \in Ptys : MainCreatePty(k)
    \/ \E p \in Paths : MainSymlink(p)
    \/ \E p \in Paths : MainOpenSlave(p)
    \/ MainStartForwarding
    \/ MainWriterOpen
    \/ MainLoopCheck
    \/ MainLoopBody
    \/ \E t \in Tasks : MainJoin(t)
    \/ \E p \in Paths : MainRemoveCheck(p)
    \/ \E p \in Paths : MainRemove(p)
    \/ \E k \in Ptys : MainCloseSlave(k)
    \/ MainReturn
    \/ MainCleanupAgain
    \/ \E t \in Tasks : FwdCheck(t)
    \/ \E t \in Tasks : FwdReadData(t)
    \/ \E t \in Tasks : FwdReadZero(t)
    \/ \E t \in Tasks : FwdReadInterrupted(t)
    \/ \E t \in Tasks : FwdReadError(t)
    \/ \E t \in Tasks : FwdWrite(t)
    \/ \E t \in Tasks : FwdClose(t)
    \/ \E p \in Paths : HarnessOpen(p)
    \/ \E p \in Paths : HarnessClose(p)
    \/ HarnessWrite
    \/ HarnessWriteBack
    \/ HarnessRead
    \/ \E p \in Paths : ExternalRemove(p)

Spec == Init /\ [][Next]_vars

\* The main thread, the signal thread and the two forwarding threads are OS
\* threads: each takes its next step when it can.  The consumer process and
\* whoever sends SIGINT or removes files are under no obligation.
FairSpec ==
    /\ Spec
    /\ WF_vars(MainStep)
    /\ WF_vars(SignalThread)
    /\ \A t \in Tasks : WF_vars(FwdOwnStep(t))
====
